---- MODULE Spec2Model ----
(***************************************************************************)
(* A model of text_stream.py: the stream classes TextStream and            *)
(* TextFileStream, the dispatcher make_text_stream, the console helper     *)
(* _user_input, and the line iterators of TextStreamABC.                   *)
(*                                                                         *)
(* A Python str is a sequence of one-character strings.  A value handed to *)
(* a constructor is a record [t, s, pos]: t is its Python type, s its text *)
(* (of a str, or of a StringIO's buffer) and pos a StringIO's cursor.      *)
(***************************************************************************)
EXTENDS Integers, Sequences, FiniteSets, TLC

VARIABLES fs, stdin, stdinPos, inst, exc, call, opened, ret, its, calls, hist, envs

vars == <<fs, stdin, stdinPos, inst, exc, call, opened, ret, its, calls, hist, envs>>

(***************************************************************************)
(* Bounds of the model.                                                    *)
(***************************************************************************)
MaxStr == 4      \* longest str handed to a constructor or the dispatcher
MaxIn == 3       \* longest console script (lines and interrupts)
MaxLen == 3      \* longest buffer text iterated over
MaxOffset == 2   \* largest offset handed to generator_starts_from
MaxCalls == 2    \* iterator invocations in one behaviour
MaxAccess == 2   \* accesses of content in one behaviour
MaxEnv == 2      \* changes made by the environment in one behaviour

NL == "\n"

SeqsUpTo(S, n) == UNION {[1..k -> S] : k \in 0..n}

(***************************************************************************)
(* Python values.                                                          *)
(***************************************************************************)
Str(s) == [t |-> "str", s |-> s, pos |-> 0]
StringIOVal(s, p) == [t |-> "StringIO", s |-> s, pos |-> p]
None == [t |-> "None", s |-> <<>>, pos |-> 0]
IntVal == [t |-> "int", s |-> <<>>, pos |-> 0]

(***************************************************************************)
(* The environment: a POSIX file system holding directories / and /h (the  *)
(* user's home) and at most the regular files /a and /h/a; the working     *)
(* directory is /.  An absolute path is the sequence of its components.    *)
(***************************************************************************)
HomeParts == << <<"h">> >>
CwdParts == << >>
FileNames == { << <<"a">> >>, << <<"h">>, <<"a">> >> }
NoFile == [exists |-> FALSE, text |-> <<>>]
File(txt) == [exists |-> TRUE, text |-> txt]

IsRegular(files, a) == a \in DOMAIN files /\ files[a].exists

IsPrefix(p, a) == Len(p) <= Len(a) /\ SubSeq(a, 1, Len(p)) = p

IsDir(files, a) ==
    \/ a = << >>
    \/ a = HomeParts
    \/ \E f \in DOMAIN files : files[f].exists /\ Len(a) < Len(f) /\ IsPrefix(a, f)

\* The components of a path string: the maximal runs of characters other than "/".
RECURSIVE PartsFrom(_, _, _, _)
PartsFrom(s, i, cur, acc) ==
    IF i > Len(s)
    THEN IF cur = << >> THEN acc ELSE Append(acc, cur)
    ELSE IF s[i] = "/"
         THEN PartsFrom(s, i + 1, << >>, IF cur = << >> THEN acc ELSE Append(acc, cur))
         ELSE PartsFrom(s, i + 1, Append(cur, s[i]), acc)

Parts(s) == PartsFrom(s, 1, << >>, << >>)

\* pathlib.Path(inp): a root flag and the components (empty ones dropped).
Path(s) == [abs |-> (Len(s) > 0 /\ s[1] = "/"), parts |-> Parts(s)]

NoPath == [abs |-> FALSE, parts |-> << >>]

\* Path.expanduser(): a relative path whose first component starts with "~" has
\* that component replaced by the home directory; "~" alone names the current
\* user, and for any other name (no such user in this environment) pathlib
\* raises RuntimeError("Could not determine home directory.").
expanduser(p) ==
    IF ~p.abs /\ p.parts # << >> /\ p.parts[1][1] = "~"
    THEN IF p.parts[1] = <<"~">>
         THEN [err |-> "none", path |-> [abs |-> TRUE, parts |-> HomeParts \o Tail(p.parts)]]
         ELSE [err |-> "RuntimeError", path |-> p]
    ELSE [err |-> "none", path |-> p]

\* The absolute path the operating system resolves p to.
Absolute(p) == IF p.abs THEN p.parts ELSE CwdParts \o p.parts

\* Path.is_file()
is_file(files, p) == IsRegular(files, Absolute(p))

\* open(inp).read() on the raw string: the operating system resolves it (no
\* "~" expansion: "~" is an ordinary name), and a trailing "/" asks for a directory.
open_read(files, s) ==
    LET a == Absolute(Path(s)) IN
    IF s = << >> THEN [err |-> "FileNotFoundError", text |-> << >>]
    ELSE IF IsRegular(files, a)
         THEN IF s[Len(s)] = "/"
              THEN [err |-> "NotADirectoryError", text |-> << >>]
              ELSE [err |-> "none", text |-> files[a].text]
         ELSE IF IsDir(files, a)
              THEN [err |-> "IsADirectoryError", text |-> << >>]
              ELSE IF \E k \in 1..Len(a) : IsRegular(files, SubSeq(a, 1, k))
                   THEN [err |-> "NotADirectoryError", text |-> << >>]
                   ELSE [err |-> "FileNotFoundError", text |-> << >>]

(***************************************************************************)
(* The console.  stdin is the script of what the user does: lines typed    *)
(* (without their newline) and interrupts; past its end the console is at  *)
(* end-of-input.  stdinPos counts the events consumed so far.              *)
(***************************************************************************)
Line(s) == [k |-> "line", s |-> s]
Interrupt == [k |-> "int", s |-> << >>]

RECURSIVE Join(_)
Join(lines) ==
    IF lines = << >> THEN << >>
    ELSE IF Len(lines) = 1 THEN lines[1]
    ELSE lines[1] \o <<NL>> \o Join(Tail(lines))

\* _user_input(): [v |-> the value returned, pos |-> the console position after].
\* input() raises EOFError at end-of-input and KeyboardInterrupt at an interrupt,
\* and the handler returns the joined lines.  At a blank line the loop is left
\* by break and the function ends without a return statement: it returns None.
RECURSIVE user_input_loop(_, _, _)
user_input_loop(console, pos, lines) ==
    IF pos >= Len(console)
    THEN [v |-> Str(Join(lines)), pos |-> pos]                 \* EOFError
    ELSE LET e == console[pos + 1] IN
         IF e.k = "int"
         THEN [v |-> Str(Join(lines)), pos |-> pos + 1]        \* KeyboardInterrupt
         ELSE IF e.s # << >>
              THEN user_input_loop(console, pos + 1, Append(lines, e.s))
              ELSE [v |-> None, pos |-> pos + 1]

user_input(console, pos) == user_input_loop(console, pos, << >>)

(***************************************************************************)
(* Stream instances.  value and pos are the StringIO buffer behind the     *)
(* instance; ext says the buffer is the caller's own handle; infile is the *)
(* string kept in __infile_path; cache is what LazyProperty has stored.    *)
(***************************************************************************)
NoCache == [has |-> FALSE, v |-> << >>]
NoInst == [cls |-> "none", value |-> << >>, pos |-> 0, ext |-> FALSE,
           infile |-> << >>, cache |-> NoCache]

Outcome(e, i, p, o) == [exc |-> e, inst |-> i, pos |-> p, opened |-> o]

\* io.StringIO(initial_value): None gives an empty buffer.
StringIO(v) == IF v.t = "None" THEN << >> ELSE v.s

\* TextStream.__init__(inp)
TextStream(v, console, pos) ==
    IF v.t = "None"
    THEN LET r == user_input(console, pos) IN
         Outcome("none", [NoInst EXCEPT !.cls = "TextStream", !.value = StringIO(r.v)],
                 r.pos, << >>)
    ELSE IF v.t = "str"
    THEN Outcome("none", [NoInst EXCEPT !.cls = "TextStream", !.value = StringIO(v)],
                 pos, << >>)
    ELSE IF v.t = "StringIO"
    THEN Outcome("none", [NoInst EXCEPT !.cls = "TextStream", !.value = v.s,
                                        !.pos = v.pos, !.ext = TRUE], pos, << >>)
    ELSE Outcome("TypeError", NoInst, pos, << >>)

\* TextFileStream.__init__(inp): the test is made on the expanded path, and
\* open() is given inp itself.
TextFileStream(v, files, pos) ==
    IF v.t = "str"
    THEN LET e == expanduser(Path(v.s)) IN
         IF e.err # "none" THEN Outcome(e.err, NoInst, pos, << >>)
         ELSE IF is_file(files, e.path)
         THEN LET f == open_read(files, v.s) IN
              IF f.err # "none" THEN Outcome(f.err, NoInst, pos, <<v.s>>)
              ELSE Outcome("none", [NoInst EXCEPT !.cls = "TextFileStream",
                                                  !.value = f.text, !.infile = v.s],
                           pos, <<v.s>>)
         ELSE Outcome("FileNotFoundError", NoInst, pos, << >>)
    ELSE Outcome("TypeError", NoInst, pos, << >>)

\* make_text_stream(inp)
make_text_stream(v, files, console, pos) ==
    IF v.t = "str"
    THEN LET e == expanduser(Path(v.s)) IN
         IF e.err # "none" THEN Outcome(e.err, NoInst, pos, << >>)
         ELSE IF is_file(files, e.path)
              THEN TextFileStream(v, files, pos)
              ELSE TextStream(v, console, pos)
    ELSE IF v.t = "StringIO"
    THEN TextStream(v, console, pos)
    ELSE IF v.t = "None"
    THEN LET r == user_input(console, pos) IN TextStream(r.v, console, r.pos)
    ELSE Outcome("TypeError", NoInst, pos, << >>)

(***************************************************************************)
(* The StringIO buffer (newline = "\n": no translation, lines end at "\n"). *)
(***************************************************************************)
\* StringIO.seek(offset, whence) on a buffer of text value with cursor pos.
seek(value, pos, offset, whence) ==
    IF whence = 0
    THEN IF offset < 0 THEN [err |-> "ValueError", pos |-> pos]
         ELSE [err |-> "none", pos |-> offset]
    ELSE IF whence = 1
    THEN IF offset # 0 THEN [err |-> "OSError", pos |-> pos]
         ELSE [err |-> "none", pos |-> pos]
    ELSE IF offset # 0 THEN [err |-> "OSError", pos |-> pos]
         ELSE [err |-> "none", pos |-> Len(value)]

\* The index of the first "\n" of value at or after index i, or Len(value).
RECURSIVE LineEnd(_, _)
LineEnd(value, i) ==
    IF i >= Len(value) THEN Len(value)
    ELSE IF value[i] = NL THEN i ELSE LineEnd(value, i + 1)

\* A faulty variant of readline: the line is returned without its "\n".
readline_Strip(value, pos) ==
    IF pos >= Len(value) THEN << >>
    ELSE SubSeq(value, pos + 1, LineEnd(value, pos + 1) -
                                (IF value[LineEnd(value, pos + 1)] = NL THEN 1 ELSE 0))

\* StringIO.readline(): the text from the cursor through the next "\n" (or to the
\* end); empty at or past the end.
readline(value, pos) ==
    IF pos >= Len(value) THEN << >>
    ELSE SubSeq(value, pos + 1, LineEnd(value, pos + 1))

\* StringIO.getvalue(): the whole text, whatever the cursor; the cursor stays.
getvalue(value, pos) == [v |-> value, pos |-> pos]

(***************************************************************************)
(* Iterators.  A generator object runs no code when it is made: the seek   *)
(* is done by its first next().  out is what it has yielded so far.        *)
(* Ghost fields: alone (no other iterator was advanced since its first     *)
(* next()) and from (the cursor its seek produced).                        *)
(***************************************************************************)
Iters == 1..2
NoTell == -1
NoIter == [kind |-> "none", st |-> "none", offset |-> 0, whence |-> 0,
           out |-> << >>, alone |-> TRUE, from |-> 0]
NewIter(kind, offset, whence) ==
    [NoIter EXCEPT !.kind = kind, !.st = "created", !.offset = offset, !.whence = whence]

\* Two faulty variants of FirstSeek: generator() and generator_telling_position()
\* enter their loop with no seek at all; every generator function rewinds to the
\* start whatever its arguments.
FirstSeek_NoSeek(it, value, pos) ==
    IF it.kind = "generator_starts_from"
    THEN seek(value, pos, it.offset, it.whence)
    ELSE [err |-> "none", pos |-> pos]

FirstSeek_Rewind(it, value, pos) == seek(value, pos, 0, 0)

\* The seek each generator function does before its loop.
FirstSeek(it, value, pos) ==
    IF it.kind = "generator_starts_from"
    THEN seek(value, pos, it.offset, it.whence)
    ELSE seek(value, pos, 0, 0)

\* A faulty variant of Yielded: the offset is the one before the line was read.
Yielded_TellBefore(it, line, pos) ==
    IF it.kind = "generator_telling_position"
    THEN [line |-> line, tell |-> pos - Len(line)]
    ELSE [line |-> line, tell |-> NoTell]

\* What the loop body yields for a line read with the cursor now at pos.
Yielded(it, line, pos) ==
    IF it.kind = "generator_telling_position"
    THEN [line |-> line, tell |-> pos]
    ELSE [line |-> line, tell |-> NoTell]

\* One next() on iterator it: [it |-> the iterator after, pos |-> the cursor after].
next(it, value, pos) ==
    LET sk == IF it.st = "created" THEN FirstSeek(it, value, pos)
              ELSE [err |-> "none", pos |-> pos]
        line == readline(value, sk.pos)
        from == IF it.st = "created" THEN sk.pos ELSE it.from
    IN  IF sk.err # "none"
        THEN [it |-> [it EXCEPT !.st = "raised"], pos |-> pos]
        ELSE IF line = << >>
        THEN [it |-> [it EXCEPT !.st = "done", !.from = from], pos |-> sk.pos]
        ELSE [it |-> [it EXCEPT !.st = "running", !.from = from,
                                !.out = Append(@, Yielded(it, line, sk.pos + Len(line)))],
              pos |-> sk.pos + Len(line)]

\* A faulty variant of content: an ordinary property, computed at every access.
content_uncached(i) ==
    LET g == getvalue(i.value, i.pos) IN
    [v |-> g.v, inst |-> [i EXCEPT !.pos = g.pos, !.cache = [has |-> TRUE, v |-> g.v]]]

\* TextStreamABC.content under LazyProperty: computed by the first access and
\* kept in the instance; later accesses return what was kept.
content(i) ==
    IF i.cache.has
    THEN [v |-> i.cache.v, inst |-> i]
    ELSE LET g == getvalue(i.value, i.pos) IN
         [v |-> g.v, inst |-> [i EXCEPT !.pos = g.pos, !.cache = [has |-> TRUE, v |-> g.v]]]

\* infile_path: None for a TextStream, Path(self.__infile_path).expanduser()
\* for a TextFileStream.
infile_path(i) ==
    IF i.cls = "TextStream"
    THEN [op |-> "infile_path", none |-> TRUE, path |-> NoPath]
    ELSE [op |-> "infile_path", none |-> FALSE, path |-> expanduser(Path(i.infile)).path]

NoRet == [op |-> "none", none |-> TRUE, path |-> NoPath]
NoCall == [op |-> "none", arg |-> None]

(***************************************************************************)
(* Actions: construction and dispatch.  One call is made in a behaviour;   *)
(* call records it, exc the exception it raised ("none": it returned).     *)
(***************************************************************************)
Called(op, v, r) ==
    /\ call = NoCall
    /\ call' = [op |-> op, arg |-> v]
    /\ exc' = r.exc
    /\ inst' = r.inst
    /\ stdinPos' = r.pos
    /\ opened' = r.opened
    /\ UNCHANGED <<fs, stdin, ret, its, calls, hist, envs>>

CallTextStream(v) == Called("TextStream", v, TextStream(v, stdin, stdinPos))

CallTextFileStream(v) == Called("TextFileStream", v, TextFileStream(v, fs, stdinPos))

CallMakeTextStream(v) ==
    Called("make_text_stream", v, make_text_stream(v, fs, stdin, stdinPos))

\* TextStream() and make_text_stream() with no argument: the console is read.
ConsoleTextStream == CallTextStream(None)

ConsoleMakeTextStream == CallMakeTextStream(None)

(***************************************************************************)
(* Actions: the accessors.  hist records every access of content: the      *)
(* value returned, the buffer's text and the file system at that moment,   *)
(* the cursor before and after.                                            *)
(***************************************************************************)
Content ==
    /\ inst.cls # "none"
    /\ Len(hist) < MaxAccess
    /\ LET r == content(inst) IN
       /\ inst' = r.inst
       /\ hist' = Append(hist, [v |-> r.v, text |-> inst.value, disk |-> fs,
                                before |-> inst.pos, after |-> r.inst.pos])
    /\ UNCHANGED <<fs, stdin, stdinPos, exc, call, opened, ret, its, calls, envs>>

InfilePath ==
    /\ inst.cls # "none"
    /\ ret = NoRet
    /\ ret' = infile_path(inst)
    /\ UNCHANGED <<fs, stdin, stdinPos, inst, exc, call, opened, its, calls, hist, envs>>

(***************************************************************************)
(* Actions: the iterators.  Making a generator object touches nothing; a   *)
(* slot made again abandons the iterator it held.                          *)
(***************************************************************************)
Start(i, it) ==
    /\ inst.cls # "none"
    /\ calls < MaxCalls
    /\ (i = 1 \/ its[1].kind # "none")
    /\ its' = [its EXCEPT ![i] = it]
    /\ calls' = calls + 1
    /\ UNCHANGED <<fs, stdin, stdinPos, inst, exc, call, opened, ret, hist, envs>>

StartGenerator(i) == Start(i, NewIter("generator", 0, 0))

StartTellingPosition(i) == Start(i, NewIter("generator_telling_position", 0, 0))

StartFrom(i, offset, whence) == Start(i, NewIter("generator_starts_from", offset, whence))

\* next() on iterator i; every other iterator in progress is no longer alone.
Advance(i) ==
    /\ its[i].st \in {"created", "running"}
    /\ LET r == next(its[i], inst.value, inst.pos) IN
       /\ its' = [j \in Iters |->
                    IF j = i THEN r.it
                    ELSE IF its[j].st = "running" THEN [its[j] EXCEPT !.alone = FALSE]
                    ELSE its[j]]
       /\ inst' = [inst EXCEPT !.pos = r.pos]
    /\ UNCHANGED <<fs, stdin, stdinPos, exc, call, opened, ret, calls, hist, envs>>

(***************************************************************************)
(* Actions: the environment.  The holder of the buffer handle writes to it *)
(* or moves its cursor; the file on disk is rewritten or removed.           *)
(***************************************************************************)
\* StringIO.write(s) at the cursor: overwrites, extends, moves the cursor.
write(value, pos, s) ==
    [v |-> SubSeq(value, 1, pos) \o s \o SubSeq(value, pos + Len(s) + 1, Len(value)),
     pos |-> pos + Len(s)]

EnvWrite(s) ==
    /\ inst.ext
    /\ envs < MaxEnv
    /\ inst.pos <= Len(inst.value)
    /\ LET w == write(inst.value, inst.pos, s) IN
       inst' = [inst EXCEPT !.value = w.v, !.pos = w.pos]
    /\ envs' = envs + 1
    /\ UNCHANGED <<fs, stdin, stdinPos, exc, call, opened, ret, its, calls, hist>>

\* The holder rewinds the buffer or moves to its end.
EnvSeek(p) ==
    /\ inst.cls # "none"
    /\ envs < MaxEnv
    /\ p # inst.pos
    /\ inst' = [inst EXCEPT !.pos = p]
    /\ its' = [j \in Iters |-> IF its[j].st = "running"
                               THEN [its[j] EXCEPT !.alone = FALSE] ELSE its[j]]
    /\ envs' = envs + 1
    /\ UNCHANGED <<fs, stdin, stdinPos, exc, call, opened, ret, calls, hist>>

\* The file a TextFileStream was loaded from is rewritten or removed.
FileChange(x) ==
    /\ inst.cls = "TextFileStream"
    /\ envs < MaxEnv
    /\ LET f == Absolute(expanduser(Path(inst.infile)).path) IN
       /\ fs[f] # x
       /\ fs' = [fs EXCEPT ![f] = x]
    /\ envs' = envs + 1
    /\ UNCHANGED <<stdin, stdinPos, inst, exc, call, opened, ret, its, calls, hist>>

(***************************************************************************)
(* Inputs.                                                                 *)
(***************************************************************************)
PathChars == {"~", "/", "a", "h"}
TextChars == {"a", NL}
ExampleText == <<"a", NL, "b", NL, "c", NL>>
Texts == SeqsUpTo(TextChars, MaxLen) \cup {ExampleText}
FileTexts == {<<"x", NL>>, <<"y">>}
Files == {NoFile} \cup {File(t) : t \in FileTexts}
Events == {Line(<<"x">>), Line(<<"y">>), Line(<< >>), Interrupt}
Values ==
    {Str(s) : s \in SeqsUpTo(PathChars, MaxStr)}
        \cup {None, IntVal, StringIOVal(<<"a", NL>>, 0), StringIOVal(<<"a", NL>>, 1)}
Offsets == (-1)..MaxOffset
Whences == 0..2

Fresh ==
    /\ stdinPos = 0
    /\ exc = "none"
    /\ opened = << >>
    /\ ret = NoRet
    /\ its = [i \in Iters |-> NoIter]
    /\ calls = 0
    /\ hist = << >>
    /\ envs = 0

(***************************************************************************)
(* Spec: construction and dispatch over every file system and every input; *)
(* two lines and a blank line wait on the console.                         *)
(***************************************************************************)
Init ==
    /\ fs \in [FileNames -> Files]
    /\ stdin = <<Line(<<"x">>), Line(<<"y">>), Line(<< >>)>>
    /\ inst = NoInst
    /\ call = NoCall
    /\ Fresh

Next ==
    \/ \E v \in Values : CallTextStream(v)
    \/ \E v \in Values : CallTextFileStream(v)
    \/ \E v \in Values : CallMakeTextStream(v)
    \/ Content
    \/ InfilePath

Spec == Init /\ [][Next]_vars

(***************************************************************************)
(* SpecConsole: the two ways of building a stream from the console, over   *)
(* every console script.                                                   *)
(***************************************************************************)
InitConsole ==
    /\ fs = [f \in FileNames |-> NoFile]
    /\ stdin \in SeqsUpTo(Events, MaxIn)
    /\ inst = NoInst
    /\ call = NoCall
    /\ Fresh

NextConsole ==
    \/ ConsoleTextStream
    \/ ConsoleMakeTextStream
    \/ Content

SpecConsole == InitConsole /\ [][NextConsole]_vars

(***************************************************************************)
(* SpecIter: the iterators of one TextStream built from a text.            *)
(***************************************************************************)
Built(op, v, r) ==
    /\ inst = r.inst
    /\ call = [op |-> op, arg |-> v]
    /\ r.exc = "none"

InitIter ==
    /\ fs = [f \in FileNames |-> NoFile]
    /\ stdin = << >>
    /\ \E t \in Texts : Built("TextStream", Str(t), TextStream(Str(t), stdin, 0))
    /\ Fresh

NextIter ==
    \/ \E i \in Iters : StartGenerator(i)
    \/ \E i \in Iters : StartTellingPosition(i)
    \/ \E i \in Iters, o \in Offsets, w \in Whences : StartFrom(i, o, w)
    \/ \E i \in Iters : Advance(i)

SpecIter == InitIter /\ [][NextIter]_vars

(***************************************************************************)
(* SpecEnv: an instance over the caller's own buffer, or over a file, with *)
(* the environment changing the buffer and the file behind it.             *)
(***************************************************************************)
EnvTexts == {<<"a", NL>>, <<"a", NL, "a">>}

InitEnv ==
    /\ stdin = << >>
    /\ \/ \E t \in EnvTexts : \E p \in 0..Len(t) :
            /\ fs = [f \in FileNames |-> NoFile]
            /\ Built("TextStream", StringIOVal(t, p),
                     TextStream(StringIOVal(t, p), stdin, 0))
       \/ \E t \in EnvTexts :
            /\ fs = [f \in FileNames |-> IF f = << <<"a">> >> THEN File(t) ELSE NoFile]
            /\ Built("TextFileStream", Str(<<"/", "a">>),
                     TextFileStream(Str(<<"/", "a">>), fs, 0))
    /\ Fresh

NextEnv ==
    \/ Content
    \/ StartGenerator(1)
    \/ Advance(1)
    \/ EnvWrite(<<"b">>)
    \/ \E p \in {0, Len(inst.value)} : EnvSeek(p)
    \/ \E x \in Files : FileChange(x)

SpecEnv == InitEnv /\ [][NextEnv]_vars

(***************************************************************************)
(* What the claims speak of, computed apart from the operations above.     *)
(***************************************************************************)
\* The lines of a text, each with its "\n" when it has one.
RECURSIVE SplitFrom(_, _, _, _)
SplitFrom(s, i, cur, acc) ==
    IF i > Len(s)
    THEN IF cur = << >> THEN acc ELSE Append(acc, cur)
    ELSE IF s[i] = NL
         THEN SplitFrom(s, i + 1, << >>, Append(acc, Append(cur, NL)))
         ELSE SplitFrom(s, i + 1, Append(cur, s[i]), acc)

SplitLines(s) == SplitFrom(s, 1, << >>, << >>)

Drop(s, n) == SubSeq(s, n + 1, Len(s))

Min(a, b) == IF a <= b THEN a ELSE b

LinesOf(out) == [k \in 1..Len(out) |-> out[k].line]

RECURSIVE SumLen(_, _)
SumLen(lines, k) == IF k = 0 THEN 0 ELSE Len(lines[k]) + SumLen(lines, k - 1)

\* The first blank line or interrupt of a console script (past its end: end-of-input).
FirstTerminator(console) ==
    LET T == {k \in 1..Len(console) : console[k].k = "int" \/ console[k].s = << >>}
    IN  IF T = {} THEN Len(console) + 1 ELSE CHOOSE k \in T : \A m \in T : k <= m

Entered(console) ==
    [k \in 1..(FirstTerminator(console) - 1) |-> console[k].s]

\* s names an existing regular file once "~" is expanded.
NamesFile(files, s) ==
    LET e == expanduser(Path(s)) IN e.err = "none" /\ is_file(files, e.path)

FileText(files, s) == files[Absolute(expanduser(Path(s)).path)].text

AbsolutePath(s) == [abs |-> TRUE, parts |-> Absolute(expanduser(Path(s)).path)]

FromConsole == call.op \in {"TextStream", "make_text_stream"} /\ call.arg = None

(***************************************************************************)
(* C1.  A stream built from the console holds exactly the non-blank lines  *)
(* entered before the first terminator (blank line, end-of-input or        *)
(* interrupt), joined with "\n", and nothing after that terminator has     *)
(* been consumed.                                                          *)
(***************************************************************************)
C1_ConsoleContent ==
    FromConsole =>
        /\ exc = "none"
        /\ inst.value = Join(Entered(stdin))
        /\ stdinPos = Min(FirstTerminator(stdin), Len(stdin))
        /\ \A k \in 1..Len(hist) : hist[k].v = Join(Entered(stdin))

(***************************************************************************)
(* C2.  make_text_stream(S), for a string S naming an existing regular     *)
(* file once "~" is expanded, returns a TextFileStream holding that file's *)
(* text.                                                                   *)
(***************************************************************************)
C2_FileDispatch ==
    (call.op = "make_text_stream" /\ call.arg.t = "str" /\ NamesFile(fs, call.arg.s)) =>
        /\ exc = "none"
        /\ inst.cls = "TextFileStream"
        /\ inst.value = FileText(fs, call.arg.s)
        /\ \A k \in 1..Len(hist) : hist[k].v = FileText(fs, call.arg.s)

(***************************************************************************)
(* C3.  make_text_stream(S), for a string S naming no existing regular     *)
(* file, returns a TextStream whose content is S itself, whose infile_path *)
(* is None, with no file opened and no console event consumed.             *)
(***************************************************************************)
C3_LiteralText ==
    (call.op = "make_text_stream" /\ call.arg.t = "str" /\ ~NamesFile(fs, call.arg.s)) =>
        /\ exc = "none"
        /\ inst.cls = "TextStream"
        /\ inst.value = call.arg.s
        /\ \A k \in 1..Len(hist) : hist[k].v = call.arg.s
        /\ ret.op = "infile_path" => ret.none
        /\ opened = << >>
        /\ stdinPos = 0

(***************************************************************************)
(* C4.  TextFileStream(F), for a path F (absolute, relative or with a      *)
(* leading "~") of an existing regular file, succeeds with the file's text *)
(* in the buffer, and infile_path returns F's absolute, expanded path.     *)
(***************************************************************************)
C4_FileStream ==
    (call.op = "TextFileStream" /\ call.arg.t = "str" /\ NamesFile(fs, call.arg.s)) =>
        /\ exc = "none"
        /\ inst.value = FileText(fs, call.arg.s)
        /\ ret.op = "infile_path" => (~ret.none /\ ret.path = AbsolutePath(call.arg.s))

(***************************************************************************)
(* C5.  TextFileStream(P) raises FileNotFoundError for every string P that *)
(* is no existing regular file and TypeError for every non-string;         *)
(* make_text_stream(v) raises TypeError for every v that is no string, no  *)
(* StringIO and not None, reading neither console nor file system; a call  *)
(* that raises leaves no instance.                                         *)
(***************************************************************************)
C5_Errors ==
    /\ (call.op = "TextFileStream" /\ call.arg.t = "str" /\ ~NamesFile(fs, call.arg.s))
           => exc = "FileNotFoundError"
    /\ (call.op = "TextFileStream" /\ call.arg.t # "str") => exc = "TypeError"
    /\ (call.op = "make_text_stream" /\ call.arg.t \notin {"str", "StringIO", "None"})
           => (exc = "TypeError" /\ stdinPos = 0 /\ opened = << >>)
    /\ exc # "none" => inst = NoInst

(***************************************************************************)
(* C6.  A generator() iterator consumed to exhaustion on its own has       *)
(* yielded every line of the buffer in order from the first, whatever ran  *)
(* on the instance before it (exhausted or abandoned part-way).            *)
(***************************************************************************)
C6_Restart ==
    \A i \in Iters :
        (its[i].kind = "generator" /\ its[i].st = "done" /\ its[i].alone)
            => LinesOf(its[i].out) = SplitLines(inst.value)

\* A generator() run to its end after another iterator was left part-way.
C6_Witness ==
    \E i, j \in Iters :
        /\ its[i].kind = "generator" /\ its[i].st = "done" /\ its[i].alone
        /\ Len(its[i].out) >= 2
        /\ its[j].st = "running" /\ ~its[j].alone
        /\ Len(its[j].out) < Len(its[i].out)

(***************************************************************************)
(* C7.  Every access of content returns what the first access returned,    *)
(* the first returns the buffer's whole text wherever the cursor is, and   *)
(* no access moves the cursor, whatever iterations, seeks, writes to the   *)
(* caller's buffer or changes of the file happen in between.               *)
(***************************************************************************)
C7_Memo ==
    \A k \in 1..Len(hist) :
        /\ hist[k].v = hist[1].v
        /\ hist[1].v = hist[1].text
        /\ hist[k].after = hist[k].before

\* Two accesses, the first with the cursor off the start, the buffer's text
\* changed between them.
C7_Witness ==
    /\ Len(hist) = 2
    /\ hist[1].before > 0
    /\ hist[2].text # hist[1].text

\* Two accesses of a file stream whose file was changed on disk in between.
C7_FileWitness ==
    /\ Len(hist) = 2
    /\ call.op = "TextFileStream"
    /\ hist[1].disk[<< <<"a">> >>] = File(hist[1].v)
    /\ hist[2].disk[<< <<"a">> >>] # File(hist[1].v)

(***************************************************************************)
(* C8.  generator_telling_position() consumed on its own yields the lines  *)
(* generator() yields, the k-th paired with the summed length of the first *)
(* k lines; the last offset is the length of the content.                  *)
(***************************************************************************)
C8_Positions ==
    \A i \in Iters :
        (its[i].kind = "generator_telling_position" /\ its[i].st = "done" /\ its[i].alone)
            => LET out == its[i].out IN
               /\ LinesOf(out) = SplitLines(inst.value)
               /\ \A k \in 1..Len(out) : out[k].tell = SumLen(LinesOf(out), k)
               /\ out # << >> => out[Len(out)].tell = Len(inst.value)

\* The example: "a\nb\nc\n" yields ("a\n", 2), ("b\n", 4), ("c\n", 6).
C8_Witness ==
    \E i \in Iters :
        /\ inst.value = ExampleText
        /\ its[i].st = "done" /\ its[i].alone
        /\ its[i].out = << [line |-> <<"a", NL>>, tell |-> 2],
                           [line |-> <<"b", NL>>, tell |-> 4],
                           [line |-> <<"c", NL>>, tell |-> 6] >>

(***************************************************************************)
(* C9.  As claimed: two generator_starts_from iterators made with the same *)
(* offset and reference point, each consumed on its own, yield the same    *)
(* sequence.                                                               *)
(***************************************************************************)
C9_AnyWhence ==
    \A i, j \in Iters :
        (/\ its[i].kind = "generator_starts_from" /\ its[j].kind = "generator_starts_from"
         /\ its[i].st = "done" /\ its[j].st = "done"
         /\ its[i].alone /\ its[j].alone
         /\ its[i].offset = its[j].offset /\ its[i].whence = its[j].whence)
            => its[i].out = its[j].out

(***************************************************************************)
(* C9, amended.  A generator_starts_from iterator consumed on its own      *)
(* yields: from the start with an offset >= 0, the lines of the text from  *)
(* that offset on; from the end with offset 0, nothing; from the current   *)
(* position with offset 0, the lines from wherever the cursor stood at its *)
(* first next(); with any other offset its first next() raises and nothing *)
(* is yielded.                                                             *)
(***************************************************************************)
C9_StartOrEnd ==
    \A i \in Iters :
        (its[i].kind = "generator_starts_from" /\ its[i].alone
         /\ its[i].st \in {"done", "raised"})
            => LET it == its[i] IN
               IF it.whence = 0 /\ it.offset >= 0
               THEN it.st = "done" /\ LinesOf(it.out) = SplitLines(Drop(inst.value, it.offset))
               ELSE IF it.whence = 2 /\ it.offset = 0
               THEN it.st = "done" /\ it.out = << >>
               ELSE IF it.whence = 1 /\ it.offset = 0
               THEN it.st = "done" /\ LinesOf(it.out) = SplitLines(Drop(inst.value, it.from))
               ELSE it.st = "raised" /\ it.out = << >>

\* Two invocations from offset 1 of the start, one after the other, both run to
\* the end with the same lines.
C9_Witness ==
    /\ \A i \in Iters :
        /\ its[i].kind = "generator_starts_from" /\ its[i].st = "done" /\ its[i].alone
        /\ its[i].whence = 0 /\ its[i].offset = 1
        /\ its[i].out # << >>
    /\ its[1].out = its[2].out

(***************************************************************************)
(* C10.  Every exhausted line iterator has yielded the sequence it yields  *)
(* when consumed alone, however the next() calls of the iterators of the   *)
(* instance were interleaved.                                              *)
(***************************************************************************)
C10_Independent ==
    \A i \in Iters :
        its[i].st = "done" =>
            /\ its[i].kind \in {"generator", "generator_telling_position"}
                   => LinesOf(its[i].out) = SplitLines(inst.value)
            /\ (its[i].kind = "generator_starts_from" /\ its[i].whence = 0)
                   => LinesOf(its[i].out) = SplitLines(Drop(inst.value, its[i].offset))

(***************************************************************************)
(* C10, amended.  The iterators of an instance share its one cursor: an    *)
(* exhausted iterator has yielded the sequence it yields alone whenever no *)
(* other iterator of the instance was advanced between its first next()    *)
(* and its end; making another iterator in that time does not disturb it.  *)
(***************************************************************************)
C10_Sequential ==
    \A i \in Iters :
        (its[i].st = "done" /\ its[i].alone) =>
            /\ its[i].kind \in {"generator", "generator_telling_position"}
                   => LinesOf(its[i].out) = SplitLines(inst.value)
            /\ (its[i].kind = "generator_starts_from" /\ its[i].whence = 0)
                   => LinesOf(its[i].out) = SplitLines(Drop(inst.value, its[i].offset))

\* Two iterators of different kinds, each run to its end on its own, one after
\* the other, both with all the lines.
C10_Witness ==
    /\ its[1].kind = "generator_telling_position"
    /\ its[2].kind = "generator"
    /\ \A i \in Iters : its[i].st = "done" /\ its[i].alone /\ Len(its[i].out) >= 2

====
